---- MODULE Spec2Model ----
(***************************************************************************)
(* Model of streamlit_app.py: the publication parser (extract_publications),*)
(* the CrossRef resolver (search_crossref_doi), the DOI URL formatter       *)
(* (create_doi_url), the batch loop (process_dois) and the two-step batch   *)
(* flow of the page script.                                                 *)
(*                                                                         *)
(* A Python str is a sequence of one-character strings; "" is <<>>.         *)
(***************************************************************************)
EXTENDS Integers, Sequences, FiniteSets, TLC

(***************************************************************************)
(* Bounds of the model.                                                     *)
(***************************************************************************)
\* entries concatenated into one input text of the parser
MaxEntries == 2
\* candidates in one registry response
MaxItems == 2

(***************************************************************************)
(* The strings the model's inputs are built from.                           *)
(***************************************************************************)
\* "2020"
S_2020 == <<"2", "0", "2", "0">>

\* "2021"
S_2021 == <<"2", "0", "2", "1">>

\* "A"
S_A == <<"A">>

\* "B"
S_B == <<"B">>

\* "Smith, J"
S_Smith == <<"S", "m", "i", "t", "h", ",", " ", "J">>

\* "A 1234-5"
S_A_digits == <<"A", " ", "1", "2", "3", "4", "-", "5">>

\* "Graph Sets"
S_GraphSets == <<"G", "r", "a", "p", "h", " ", "S", "e", "t", "s">>

\* "Ab"
S_Ab == <<"A", "b">>

\* "A Study of Graphs"
S_Study ==
  <<"A", " ", "S", "t", "u", "d", "y", " ", "o", "f", " ", "G", "r", "a",
  "p", "h", "s">>

\* "T 1999-2000"
S_YearRange == <<"T", " ", "1", "9", "9", "9", "-", "2", "0", "0", "0">>

\* " "
S_Blank == <<" ">>

\* "V"
S_V == <<"V">>

\* "W"
S_W == <<"W">>

\* "Journal of Math"
S_Journal ==
  <<"J", "o", "u", "r", "n", "a", "l", " ", "o", "f", " ", "M", "a", "t",
  "h">>

\* "V 1234-1250"
S_Pages == <<"V", " ", "1", "2", "3", "4", "-", "1", "2", "5", "0">>

\* "no entries"
S_Garbage == <<"n", "o", " ", "e", "n", "t", "r", "i", "e", "s">>

\* "graph sets!"
S_graph_sets_bang == <<"g", "r", "a", "p", "h", " ", "s", "e", "t", "s", "!">>

\* "Graph Set"
S_GraphSet == <<"G", "r", "a", "p", "h", " ", "S", "e", "t">>

\* "Graph Theory"
S_GraphTheory ==
  <<"G", "r", "a", "p", "h", " ", "T", "h", "e", "o", "r", "y">>

\* "A.b"
S_A_dot_b == <<"A", ".", "b">>

\* "abcdefghijklmnopqrst"
S_Long ==
  <<"a", "b", "c", "d", "e", "f", "g", "h", "i", "j", "k", "l", "m", "n",
  "o", "p", "q", "r", "s", "t">>

\* "abcdefghijklmnopqxyz"
S_LongNear ==
  <<"a", "b", "c", "d", "e", "f", "g", "h", "i", "j", "k", "l", "m", "n",
  "o", "p", "q", "x", "y", "z">>

\* "10.1000/xyz"
S_DoiXyz == <<"1", "0", ".", "1", "0", "0", "0", "/", "x", "y", "z">>

\* "10.1000/abc"
S_DoiAbc == <<"1", "0", ".", "1", "0", "0", "0", "/", "a", "b", "c">>

\* "invalid"
S_Invalid == <<"i", "n", "v", "a", "l", "i", "d">>

\* str(None)
S_None == <<"N", "o", "n", "e">>

\* the prefix create_doi_url and process_dois test for
DoiPrefix == <<"1", "0", ".">>

\* the resolver URL create_doi_url prepends
DoiOrg ==
  <<"h", "t", "t", "p", "s", ":", "/", "/", "d", "o", "i", ".", "o", "r",
  "g", "/">>

\* "https://doi.org/10.1000/xyz"
S_UrlXyz ==
  <<"h", "t", "t", "p", "s", ":", "/", "/", "d", "o", "i", ".", "o", "r",
  "g", "/", "1", "0", ".", "1", "0", "0", "0", "/", "x", "y", "z">>

\* entries of an input text stand on lines of their own
S_EntrySep == <<"\n">>

(***************************************************************************)
(* Character classes of the re module, restricted to ASCII.                 *)
(***************************************************************************)
Digits == {"0", "1", "2", "3", "4", "5", "6", "7", "8", "9"}

UpperSeq == <<"A", "B", "C", "D", "E", "F", "G", "H", "I", "J", "K", "L", "M",
              "N", "O", "P", "Q", "R", "S", "T", "U", "V", "W", "X", "Y", "Z">>

LowerSeq == <<"a", "b", "c", "d", "e", "f", "g", "h", "i", "j", "k", "l", "m",
              "n", "o", "p", "q", "r", "s", "t", "u", "v", "w", "x", "y", "z">>

Letters == {UpperSeq[i] : i \in 1..26} \cup {LowerSeq[i] : i \in 1..26}

\* \s
IsSpace(c) == c \in {" ", "\n", "\t"}

\* \d
IsDigit(c) == c \in Digits

\* \w
IsWord(c) == c \in Letters \cup Digits \cup {"_"}

\* str.lower() on one character
LowerChar(c) ==
  IF \E i \in 1..26 : UpperSeq[i] = c
  THEN LowerSeq[CHOOSE i \in 1..26 : UpperSeq[i] = c]
  ELSE c

(***************************************************************************)
(* str methods.                                                             *)
(***************************************************************************)
Slice(s, lo, hi) == IF lo > hi THEN <<>> ELSE SubSeq(s, lo, hi)

\* first index >= p that holds no whitespace, Len(s) + 1 when there is none
SkipSpaces(s, p) ==
  CHOOSE q \in p..(Len(s) + 1) :
    /\ \A r \in p..(q - 1) : IsSpace(s[r])
    /\ q = Len(s) + 1 \/ ~IsSpace(s[q])

\* s with the leading and trailing characters of the set `drop` removed
StripChars(s, drop, left, right) ==
  LET keep == {i \in 1..Len(s) : s[i] \notin drop}
      lo == IF left
            THEN (IF keep = {} THEN Len(s) + 1
                  ELSE CHOOSE i \in keep : \A j \in keep : i <= j)
            ELSE 1
      hi == IF right
            THEN (IF keep = {} THEN 0
                  ELSE CHOOSE i \in keep : \A j \in keep : j <= i)
            ELSE Len(s)
  IN Slice(s, lo, hi)

\* str.strip()
Strip(s) == StripChars(s, {" ", "\n", "\t"}, TRUE, TRUE)

\* str.rstrip('.')
RStripDot(s) == StripChars(s, {"."}, FALSE, TRUE)

\* str.strip('.')
StripDot(s) == StripChars(s, {"."}, TRUE, TRUE)

\* str.lower()
Lower(s) == [i \in 1..Len(s) |-> LowerChar(s[i])]

\* str.startswith(prefix)
StartsWith(s, prefix) ==
  /\ Len(prefix) <= Len(s)
  /\ SubSeq(s, 1, Len(prefix)) = prefix

(***************************************************************************)
(* extract_publications.                                                    *)
(***************************************************************************)
\* the pattern \d{4}\s*-\s* matches at index p of s
MarkerAt(s, p) ==
  /\ p + 3 <= Len(s)
  /\ \A k \in 0..3 : IsDigit(s[p + k])
  /\ LET q == SkipSpaces(s, p + 4)
     IN q <= Len(s) /\ s[q] = "-"

\* index after the match of \d{4}\s*-\s* at index p (MarkerAt(s, p) holds)
MarkerEnd(s, p) == SkipSpaces(s, SkipSpaces(s, p + 4) + 1)

RECURSIVE Pieces(_, _, _)
\* the pieces of s from index `from` on, cut before every index of `cuts`
Pieces(s, cuts, from) ==
  LET later == {c \in cuts : c > from}
  IN IF later = {}
     THEN <<Slice(s, from, Len(s))>>
     ELSE LET nxt == CHOOSE c \in later : \A d \in later : c <= d
          IN <<Slice(s, from, nxt - 1)>> \o Pieces(s, cuts, nxt)

\* re.split(r'(?=\d{4}\s*-\s*)', text): an empty match before every marker; a
\* marker at the very start gives an empty first piece
SplitEntries(text) ==
  LET cuts == {p \in 1..Len(text) : MarkerAt(text, p)}
  IN IF 1 \in cuts
     THEN <<(<<>>)>> \o Pieces(text, cuts, 1)
     ELSE Pieces(text, cuts, 1)

\* re.search(r'"([^"]+)"', entry): <<start, end>>, the indices of the two
\* quotes of the leftmost match, <<0, 0>> when there is none. The match starts
\* at the first quote whose next quote lies at least two characters further.
TitleMatch(entry) ==
  LET quotes == {i \in 1..Len(entry) : entry[i] = "\""}
      NextQuote(i) == CHOOSE j \in quotes : j > i /\ \A k \in quotes : k > i => j <= k
      opens == {i \in quotes : /\ \E j \in quotes : j > i
                               /\ NextQuote(i) >= i + 2}
  IN IF opens = {}
     THEN <<0, 0>>
     ELSE LET o == CHOOSE i \in opens : \A k \in opens : i <= k
          IN <<o, NextQuote(o)>>

\* the venue of an entry whose title match ends at index `close`
VenueOf(entry, close) == StripDot(Strip(Slice(entry, close + 1, Len(entry))))

\* the authors of an entry, between the year marker and the opening quote
AuthorsOf(entry, start_pos, open) == RStripDot(Strip(Slice(entry, start_pos, open - 1)))

\* the body of the loop for one chunk: the records it appends (none or one)
ParseEntry(chunk) ==
  LET entry == Strip(chunk)
  IN IF entry = <<>> THEN <<>>
     ELSE IF ~MarkerAt(entry, 1) THEN <<>>
     ELSE LET tm == TitleMatch(entry)
          IN IF tm = <<0, 0>> THEN <<>>
             ELSE << [ Year    |-> SubSeq(entry, 1, 4),
                       Authors |-> AuthorsOf(entry, MarkerEnd(entry, 1), tm[1]),
                       Title   |-> Strip(Slice(entry, tm[1] + 1, tm[2] - 1)),
                       Venue   |-> VenueOf(entry, tm[2]) ] >>

RECURSIVE ParseAll(_, _)
ParseAll(chunks, i) ==
  IF i > Len(chunks) THEN <<>>
  ELSE ParseEntry(chunks[i]) \o ParseAll(chunks, i + 1)

extract_publications(text) == ParseAll(SplitEntries(text), 1)

(***************************************************************************)
(* clean_text_for_comparison.                                               *)
(***************************************************************************)
\* re.sub(r'[^\w\s-]', ' ', text): every other character becomes a space
ReplacePunct(text) ==
  [i \in 1..Len(text) |->
     IF IsWord(text[i]) \/ IsSpace(text[i]) \/ text[i] = "-" THEN text[i] ELSE " "]

RECURSIVE CollapseFrom(_, _)
\* re.sub(r'\s+', ' ', text) from index i on: a run of whitespace becomes " "
CollapseFrom(text, i) ==
  IF i > Len(text) THEN <<>>
  ELSE IF IsSpace(text[i])
       THEN <<" ">> \o CollapseFrom(text, SkipSpaces(text, i))
       ELSE <<text[i]>> \o CollapseFrom(text, i + 1)

CollapseSpaces(text) == CollapseFrom(text, 1)

clean_text_for_comparison(text) == Strip(Lower(CollapseSpaces(ReplacePunct(text))))

(***************************************************************************)
(* difflib.SequenceMatcher(None, a, b).ratio(), for len(b) < 200 (no        *)
(* element is "popular", so nothing is junk).                               *)
(***************************************************************************)
Min(x, y) == IF x <= y THEN x ELSE y

\* length of the common run of a from i and b from j, inside a[..ahi], b[..bhi]
RunLen(a, b, i, j, ahi, bhi) ==
  LET limit == Min(ahi - i + 1, bhi - j + 1)
  IN CHOOSE k \in 0..limit :
       /\ \A t \in 0..(k - 1) : a[i + t] = b[j + t]
       /\ k = limit \/ a[i + k] # b[j + k]

\* find_longest_match: <<i, j, k>>, the longest block a[i..i+k-1] = b[j..j+k-1]
\* inside a[alo..ahi] and b[blo..bhi]; of the longest, the one starting
\* earliest in a, and of those, earliest in b
FindLongestMatch(a, b, alo, ahi, blo, bhi) ==
  LET starts == {p \in (alo..ahi) \X (blo..bhi) : a[p[1]] = b[p[2]]}
      len == [p \in starts |-> RunLen(a, b, p[1], p[2], ahi, bhi)]
  IN IF starts = {}
     THEN <<alo, blo, 0>>
     ELSE LET longest == {p \in starts : \A q \in starts : len[q] <= len[p]}
              first == CHOOSE p \in longest :
                         \A q \in longest :
                           \/ p[1] < q[1]
                           \/ p[1] = q[1] /\ p[2] <= q[2]
          IN <<first[1], first[2], len[first]>>

RECURSIVE MatchCount(_, _, _, _, _, _)
\* the total size of get_matching_blocks(): the longest match, then the
\* matches to its left and to its right
MatchCount(a, b, alo, ahi, blo, bhi) ==
  IF alo > ahi \/ blo > bhi THEN 0
  ELSE LET m == FindLongestMatch(a, b, alo, ahi, blo, bhi)
       IN IF m[3] = 0 THEN 0
          ELSE m[3] + MatchCount(a, b, alo, m[1] - 1, blo, m[2] - 1)
                    + MatchCount(a, b, m[1] + m[3], ahi, m[2] + m[3], bhi)

Matches(a, b) == MatchCount(a, b, 1, Len(a), 1, Len(b))

\* the threshold of the resolver, in hundredths: similarity > 0.85
SimilarityThresholdPct == 85

\* ratio() > 0.85, where ratio() is 2.0 * matches / (len(a) + len(b)) and 1.0
\* when both are empty
SimilarEnough(a, b) ==
  IF Len(a) + Len(b) = 0
  THEN 100 > SimilarityThresholdPct
  ELSE 2 * Matches(a, b) * 100 > SimilarityThresholdPct * (Len(a) + Len(b))

\* ratio() = 1.0
RatioIsOne(a, b) ==
  Len(a) + Len(b) = 0 \/ 2 * Matches(a, b) = Len(a) + Len(b)

(***************************************************************************)
(* search_crossref_doi.  A registry response is                             *)
(*   [kind, items], kind in "network_error" (requests.get raises),          *)
(*   "http_error" (status_code # 200), "bad_body" (status 200, and          *)
(*   response.json() or results["message"]["items"] raises), "ok".          *)
(* A candidate (one item) is [title, pp, doi]:                              *)
(*   title.tag  "absent" | "empty" (an empty list) | "bad" (title[0] is no  *)
(*              string: re.sub raises) | "str"                              *)
(*   pp.tag     "absent" (no published-print) | "no_parts" (no date-parts)  *)
(*              | "empty_parts" (date-parts is [], or [[]]: IndexError)     *)
(*              | "null" (date-parts [[null]]) | "year" (date-parts [[val]])*)
(*   doi.tag    "absent" | "str"                                            *)
(* The outcome of a call is [raised, value]: raised to the caller, or the   *)
(* value returned.                                                          *)
(***************************************************************************)
Returned(v) == [raised |-> FALSE, value |-> v]

\* a handler that lets the exception through
ExceptHandlerReraise == [raised |-> TRUE, value |-> <<>>]

\* except Exception: st.warning(...); return ""
ExceptHandler == Returned(<<>>)

DigitSeq == <<"0", "1", "2", "3", "4", "5", "6", "7", "8", "9">>

RECURSIVE IntToStr(_)
\* str(n) for an int n >= 0
IntToStr(n) ==
  IF n < 10 THEN <<DigitSeq[n + 1]>>
  ELSE IntToStr(n \div 10) \o IntToStr(n % 10)

\* str(result["published-print"].get("date-parts", [[""]])[0][0])
PubYear(pp) ==
  CASE pp.tag = "no_parts" -> <<>>
    [] pp.tag = "null"     -> S_None
    [] pp.tag = "year"     -> IntToStr(pp.val)

\* a year check that lets a candidate without date-parts through
YearRejectsOnlyStructured(year, pp) ==
  /\ year # <<>>
  /\ pp.tag = "year"
  /\ PubYear(pp) # year

\* if year and "published-print" in result: ... if pub_year != year: continue
YearRejects(year, pp) ==
  /\ year # <<>>
  /\ pp.tag # "absent"
  /\ PubYear(pp) # year

\* result.get("DOI", "")
DoiOf(result) == IF result.doi.tag = "absent" THEN <<>> ELSE result.doi.val

RECURSIVE ScanItems(_, _, _, _)
\* the for loop over results["message"]["items"], from item i on
ScanItems(items, i, input_title_clean, year) ==
  IF i > Len(items) THEN Returned(<<>>)
  ELSE LET result == items[i]
       IN IF result.title.tag \in {"absent", "empty"}
          THEN ScanItems(items, i + 1, input_title_clean, year)
          ELSE IF result.title.tag = "bad" THEN ExceptHandler
          ELSE IF SimilarEnough(clean_text_for_comparison(result.title.val),
                                input_title_clean)
               THEN IF year # <<>> /\ result.pp.tag = "empty_parts"
                    THEN ExceptHandler
                    ELSE IF YearRejects(year, result.pp)
                         THEN ScanItems(items, i + 1, input_title_clean, year)
                         ELSE Returned(DoiOf(result))
               ELSE ScanItems(items, i + 1, input_title_clean, year)

\* title.strip().replace('\n', ' ')
CleanTitle(title) ==
  LET t == Strip(title)
  IN [i \in 1..Len(t) |-> IF t[i] = "\n" THEN " " ELSE t[i]]

\* the authors hint is accepted and never used
search_crossref_doi(title, authors, year, resp) ==
  CASE resp.kind = "network_error" -> ExceptHandler
    [] resp.kind = "http_error"    -> Returned(<<>>)
    [] resp.kind = "bad_body"      -> ExceptHandler
    [] resp.kind = "ok" ->
         IF resp.items = <<>>
         THEN Returned(<<>>)
         ELSE ScanItems(resp.items, 1,
                        clean_text_for_comparison(CleanTitle(title)), year)

(***************************************************************************)
(* create_doi_url.                                                          *)
(***************************************************************************)
\* a formatter that forgets the prefix test
create_doi_url_any(doi) == IF doi # <<>> THEN DoiOrg \o doi ELSE <<>>

create_doi_url(doi) ==
  IF doi # <<>> /\ StartsWith(doi, DoiPrefix) THEN DoiOrg \o doi ELSE <<>>

(***************************************************************************)
(* Inputs of the parser: texts of up to MaxEntries entries, each rendered   *)
(* in the documented form  YEAR - Authors. "Title". Venue.  or with its     *)
(* quoted title or its year marker missing.                                 *)
(***************************************************************************)
Entry(kind, year, authors, title, venue) ==
  [kind |-> kind, year |-> year, authors |-> authors, title |-> title,
   venue |-> venue]

EntryGraph == Entry("ok", S_2020, S_A, S_GraphSets, S_V)

EntryAb == Entry("ok", S_2021, S_B, S_Ab, S_W)

EntryStudy == Entry("ok", S_2020, S_Smith, S_Study, S_Journal)

Entries ==
  { EntryGraph, EntryAb, EntryStudy,
    Entry("ok", S_2021, S_A, S_YearRange, S_V),
    Entry("ok", S_2020, S_A, S_Ab, S_Pages),
    Entry("ok", S_2021, S_A_digits, S_Ab, S_V),
    Entry("ok", S_2020, S_A, S_Blank, S_V),
    Entry("ok", S_2020, <<>>, S_Ab, <<>>),
    Entry("notitle", S_2021, S_B, S_Ab, S_W),
    Entry("noyear", S_2021, S_B, S_Ab, S_W) }

Quote == <<"\"">>

Render(e) ==
  CASE e.kind = "ok" ->
         e.year \o <<" ", "-", " ">> \o e.authors \o <<".", " ">> \o Quote
           \o e.title \o Quote \o <<".", " ">> \o e.venue \o <<".">>
    [] e.kind = "notitle" ->
         e.year \o <<" ", "-", " ">> \o e.authors \o <<".", " ">>
           \o e.title \o <<".", " ">> \o e.venue \o <<".">>
    [] e.kind = "noyear" ->
         e.authors \o <<".", " ">> \o Quote
           \o e.title \o Quote \o <<".", " ">> \o e.venue \o <<".">>

RECURSIVE RenderAll(_)
\* the entries, one per line
RenderAll(es) ==
  IF es = <<>> THEN <<>>
  ELSE IF Len(es) = 1 THEN Render(es[1])
  ELSE Render(es[1]) \o S_EntrySep \o RenderAll(Tail(es))

SeqsUpTo(S, n) == UNION {[1..k -> S] : k \in 0..n}

(***************************************************************************)
(* Inputs of the resolver.                                                  *)
(***************************************************************************)
Absent == [tag |-> "absent", val |-> <<>>]

Str(s) == [tag |-> "str", val |-> s]

NoPP == [tag |-> "absent", val |-> 0]

PPYear(y) == [tag |-> "year", val |-> y]

Candidate(title, pp, doi) == [title |-> title, pp |-> pp, doi |-> doi]

Candidates ==
  { Candidate(Str(S_GraphSets), PPYear(2020), Str(S_DoiXyz)),
    Candidate(Str(S_graph_sets_bang), NoPP, Str(S_DoiAbc)),
    Candidate(Str(S_GraphSet), PPYear(2021), Str(S_Invalid)),
    Candidate(Str(S_GraphTheory), PPYear(2020), Str(S_DoiAbc)),
    Candidate(Str(S_GraphSets), [tag |-> "no_parts", val |-> 0], Str(S_DoiAbc)),
    Candidate(Str(S_GraphSets), [tag |-> "null", val |-> 0], Str(S_DoiAbc)),
    Candidate(Str(S_GraphSets), [tag |-> "empty_parts", val |-> 0], Str(S_DoiAbc)),
    Candidate(Str(S_GraphSets), PPYear(2020), Absent),
    Candidate(Absent, PPYear(2020), Str(S_DoiAbc)),
    Candidate([tag |-> "empty", val |-> <<>>], NoPP, Str(S_DoiAbc)),
    Candidate([tag |-> "bad", val |-> <<>>], NoPP, Str(S_DoiAbc)),
    Candidate(Str(S_A_dot_b), NoPP, Str(S_DoiXyz)),
    Candidate(Str(S_LongNear), NoPP, Str(S_DoiXyz)) }

Response(kind, items) == [kind |-> kind, items |-> items]

Failures ==
  { Response("network_error", <<>>), Response("http_error", <<>>),
    Response("bad_body", <<>>) }

Responses == Failures \cup {Response("ok", items) : items \in SeqsUpTo(Candidates, MaxItems)}

InputTitles == {S_GraphSets, S_Ab, S_Long}

YearHints == {<<>>, S_2020}

(***************************************************************************)
(* Inputs of the page script.                                               *)
(***************************************************************************)
Tabs == {"Single Search", "Batch Processing", "About"}

\* what the text area or the uploaded file can hold
PageTexts ==
  { <<>>, S_Garbage, RenderAll(<<EntryGraph>>), RenderAll(<<EntryGraph, EntryAb>>) }

\* what the registry can answer to one lookup of the page
PageResponses ==
  { Response("network_error", <<>>), Response("http_error", <<>>),
    Response("ok", <<>>),
    Response("ok", <<Candidate(Str(S_GraphSets), PPYear(2020), Str(S_DoiXyz))>>),
    Response("ok", <<Candidate(Str(S_Ab), NoPP, Str(S_Invalid))>>) }

\* st.session_state.processed_df: None, or the table and whether it holds
\* the DOI and DOI URL columns
NoneDf == [none |-> TRUE, rows |-> <<>>, doi_cols |-> FALSE]

\* pd.DataFrame(publications)
DataFrame(publications) ==
  [none |-> FALSE,
   rows |-> [i \in 1..Len(publications) |->
               [Year |-> publications[i].Year, Authors |-> publications[i].Authors,
                Title |-> publications[i].Title, Venue |-> publications[i].Venue,
                DOI |-> <<>>, DOI_URL |-> <<>>]],
   doi_cols |-> FALSE]

VARIABLES
  \* the parser on its own: the entries of the text, the text, the records
  exEntries, exText, exPubs, exPhase,
  \* the resolver on its own: the title, the year hint, the response, the outcome
  rsTitle, rsYear, rsResp, rsResult, rsPhase,
  \* the page: session state and widgets
  active_tab, text_input, processed_df, buttons, single_result,
  \* the page: history of the last "1. Process Publications" run
  last_parse,
  \* process_dois: position, loop index, the list and what was done
  pc, idx, dois, log, resps

exVars == <<exEntries, exText, exPubs, exPhase>>

rsVars == <<rsTitle, rsYear, rsResp, rsResult, rsPhase>>

pageVars == <<active_tab, text_input, processed_df, buttons, single_result, last_parse>>

loopVars == <<pc, idx, dois, log, resps>>

vars == <<exVars, rsVars, pageVars, loopVars>>

ExIdle ==
  /\ exEntries = <<>>
  /\ exText = <<>>
  /\ exPubs = <<>>
  /\ exPhase = "input"

RsIdle ==
  /\ rsTitle = <<>>
  /\ rsYear = <<>>
  /\ rsResp = Response("ok", <<>>)
  /\ rsResult = Returned(<<>>)
  /\ rsPhase = "input"

\* the session state after the first run of the script (lines 148-153, 158)
PageInit ==
  /\ active_tab = "Single Search"
  /\ text_input = <<>>
  /\ processed_df = NoneDf
  /\ buttons = {"search"}
  /\ single_result = "none"
  /\ last_parse = "none"
  /\ pc = "idle"
  /\ idx = 0
  /\ dois = <<>>
  /\ log = <<>>
  /\ resps = <<>>

(***************************************************************************)
(* The parser on its own.                                                   *)
(***************************************************************************)
ExInit ==
  /\ exEntries \in SeqsUpTo(Entries, MaxEntries)
  /\ exText = RenderAll(exEntries)
  /\ exPubs = <<>>
  /\ exPhase = "input"
  /\ RsIdle
  /\ PageInit

Extract ==
  /\ exPhase = "input"
  /\ exPubs' = extract_publications(exText)
  /\ exPhase' = "done"
  /\ UNCHANGED <<exEntries, exText, rsVars, pageVars, loopVars>>

SpecExtract == ExInit /\ [][Extract]_vars

(***************************************************************************)
(* The resolver on its own.                                                 *)
(***************************************************************************)
RsInit ==
  /\ rsTitle \in InputTitles
  /\ rsYear \in YearHints
  /\ rsResp \in Responses
  /\ rsResult = Returned(<<>>)
  /\ rsPhase = "input"
  /\ ExIdle
  /\ PageInit

Search ==
  /\ rsPhase = "input"
  /\ rsResult' = search_crossref_doi(rsTitle, <<>>, rsYear, rsResp)
  /\ rsPhase' = "done"
  /\ UNCHANGED <<rsTitle, rsYear, rsResp, exVars, pageVars, loopVars>>

SpecResolve == RsInit /\ [][Search]_vars

(***************************************************************************)
(* The page.  Every interaction of the user runs the script once, top to    *)
(* bottom; a button can be clicked only if the last run rendered it.  A     *)
(* widget that a run does not render loses its value.  While process_dois   *)
(* runs, the run is taken to be left alone until it ends.                   *)
(***************************************************************************)
\* the buttons one run renders; `stopped`: st.stop() was reached (line 221)
RenderedButtons(tab, text, df, stopped) ==
  CASE tab = "Single Search" -> {"search"}
    [] tab = "Batch Processing" ->
         (IF text # <<>> THEN {"process"} ELSE {})
           \cup (IF ~stopped /\ ~df.none THEN {"find"} ELSE {})
    [] tab = "About" -> {}

LoopIdle ==
  /\ pc' = "idle"
  /\ idx' = 0
  /\ dois' = <<>>
  /\ log' = <<>>
  /\ resps' = <<>>

\* the sidebar radio (lines 158-161)
SelectTab(t) ==
  /\ pc = "idle"
  /\ t # active_tab
  /\ active_tab' = t
  /\ text_input' = <<>>
  /\ buttons' = RenderedButtons(t, <<>>, processed_df, FALSE)
  /\ single_result' = "none"
  /\ UNCHANGED <<processed_df, last_parse, loopVars, exVars, rsVars>>

\* the text area or the file uploader (lines 201-213); no button is clicked
EditText(t) ==
  /\ pc = "idle"
  /\ active_tab = "Batch Processing"
  /\ t # text_input
  /\ text_input' = t
  /\ buttons' = RenderedButtons(active_tab, t, processed_df, FALSE)
  /\ UNCHANGED <<active_tab, processed_df, single_result, last_parse, loopVars,
                 exVars, rsVars>>

\* "Search DOI" (lines 189-196)
ClickSearch(title, year, resp) ==
  /\ pc = "idle"
  /\ "search" \in buttons
  /\ single_result' =
       IF title = <<>> THEN "none"
       ELSE IF search_crossref_doi(title, <<>>, year, resp).value # <<>>
            THEN "success"
            ELSE "info"
  /\ UNCHANGED <<active_tab, text_input, processed_df, buttons, last_parse,
                 loopVars, exVars, rsVars>>

\* "1. Process Publications" (lines 216-226), then the rest of the run
ClickProcess ==
  /\ pc = "idle"
  /\ "process" \in buttons
  /\ LET publications == extract_publications(text_input)
     IN IF publications = <<>>
        THEN /\ last_parse' = "empty"
             /\ buttons' = RenderedButtons(active_tab, text_input, processed_df, TRUE)
             /\ UNCHANGED processed_df
        ELSE /\ last_parse' = "ok"
             /\ processed_df' = DataFrame(publications)
             /\ buttons' = RenderedButtons(active_tab, text_input, processed_df', FALSE)
  /\ UNCHANGED <<active_tab, text_input, single_result, loopVars, exVars, rsVars>>

\* "2. Find DOIs" (lines 229-235): process_dois starts on the cached table
ClickFind ==
  /\ pc = "idle"
  /\ "find" \in buttons
  /\ pc' = "call"
  /\ idx' = 1
  /\ dois' = <<>>
  /\ log' = <<>>
  /\ resps' = <<>>
  /\ UNCHANGED <<pageVars, exVars, rsVars>>

\* a list that keeps only the DOIs found
AppendDoiIfFound(list, doi) == IF doi = <<>> THEN list ELSE Append(list, doi)

\* dois.append(doi)
AppendDoi(list, doi) == Append(list, doi)

\* one iteration of process_dois up to dois.append (lines 104-118)
ResolveRow(resp) ==
  /\ pc = "call"
  /\ LET row == processed_df.rows[idx]
         doi == search_crossref_doi(row.Title, row.Authors, row.Year, resp)
     IN IF doi.raised
        THEN \* the exception ends the run
             /\ LoopIdle
             /\ buttons' = {}
        ELSE /\ dois' = AppendDoi(dois, doi.value)
             /\ log' = Append(log, <<"call", idx>>)
             /\ resps' = Append(resps, resp)
             /\ pc' = "sleep"
             /\ UNCHANGED <<idx, buttons>>
  /\ UNCHANGED <<active_tab, text_input, processed_df, single_result, last_parse,
                 exVars, rsVars>>

\* sleep(1), then the next row or the end of the loop (lines 119, 104)
Pace ==
  /\ pc = "sleep"
  /\ log' = Append(log, <<"sleep", idx>>)
  /\ idx' = idx + 1
  /\ pc' = IF idx + 1 > Len(processed_df.rows) THEN "return" ELSE "call"
  /\ UNCHANGED <<dois, resps, pageVars, exVars, rsVars>>

\* df['DOI'] = dois; df['DOI URL'] = df['DOI'].apply(create_doi_url)
WithDois(df, list) ==
  [df EXCEPT
     !.rows = [i \in 1..Len(df.rows) |->
                 LET doi == IF i <= Len(list) THEN list[i] ELSE <<>>
                 IN [df.rows[i] EXCEPT !.DOI = doi, !.DOI_URL = create_doi_url(doi)]],
     !.doi_cols = TRUE]

\* return dois, and the rest of the run (lines 121, 235-257)
FinishFind ==
  /\ pc = "return"
  /\ processed_df' = WithDois(processed_df, dois)
  /\ buttons' = RenderedButtons(active_tab, text_input, processed_df', FALSE)
  /\ LoopIdle
  /\ UNCHANGED <<active_tab, text_input, single_result, last_parse, exVars, rsVars>>

LoopStep == (\E resp \in PageResponses : ResolveRow(resp)) \/ Pace \/ FinishFind

Init == ExIdle /\ RsIdle /\ PageInit

Next ==
  \/ \E t \in Tabs : SelectTab(t)
  \/ \E t \in PageTexts : EditText(t)
  \/ \E title \in {<<>>, S_GraphSets}, year \in YearHints, resp \in PageResponses :
       ClickSearch(title, year, resp)
  \/ ClickProcess
  \/ ClickFind
  \/ \E resp \in PageResponses : ResolveRow(resp)
  \/ Pace
  \/ FinishFind

Spec == Init /\ [][Next]_vars

(***************************************************************************)
(* Properties of the parser, under SpecExtract.                             *)
(***************************************************************************)
AllIndices(seq) == 1..Len(seq)

IsValidEntry(e) == e.kind = "ok"

\* the record the documented form of an entry stands for
RecordOf(e) ==
  [Year |-> e.year, Authors |-> e.authors, Title |-> Strip(e.title), Venue |-> e.venue]

\* C1: a text of N valid entries (a year marker and a quoted title each) gives
\* exactly N records, the i-th with the year, the authors and the title of the
\* i-th entry, whatever the entries' authors, title and venue hold.
C1_ValidEntriesGiveTheirRecords ==
  (exPhase = "done" /\ \A i \in AllIndices(exEntries) : IsValidEntry(exEntries[i]))
    => /\ Len(exPubs) = Len(exEntries)
       /\ \A i \in AllIndices(exEntries) :
            /\ exPubs[i].Year = exEntries[i].year
            /\ exPubs[i].Authors = exEntries[i].authors
            /\ exPubs[i].Title = Strip(exEntries[i].title)

\* C2: an entry without a quoted title or without a year marker gives no
\* record, and the records of the text are those of the text without it.
C2_InvalidEntryLeavesNeighboursAlone ==
  exPhase = "done"
    => exPubs = extract_publications(RenderAll(SelectSeq(exEntries, IsValidEntry)))

\* C6: an entry of the documented form  YEAR - Authors. "Title". Venue.  gives
\* one record whose authors and venue are the entry's, without the periods and
\* the whitespace around them; '2020 - Smith, J. "A Study of Graphs". Journal
\* of Math.' gives year 2020, authors 'Smith, J', title 'A Study of Graphs',
\* venue 'Journal of Math'.
C6_DocumentedFormFields ==
  (exPhase = "done" /\ exEntries \in {<<EntryStudy>>, <<EntryGraph>>, <<EntryAb>>})
    => exPubs = <<RecordOf(exEntries[1])>>

\* C10: every record has a non-empty title and a year of exactly four digits.
C10_TitleNeverEmpty ==
  exPhase = "done"
    => \A i \in AllIndices(exPubs) :
         /\ exPubs[i].Title # <<>>
         /\ Len(exPubs[i].Year) = 4
         /\ \A k \in 1..4 : IsDigit(exPubs[i].Year[k])

(***************************************************************************)
(* Properties of the resolver, under SpecResolve.                           *)
(***************************************************************************)
HasTitle(c) == c.title.tag = "str"

\* the candidate has the shape the loop reads without an exception
WellFormed(c) == c.title.tag # "bad" /\ c.pp.tag # "empty_parts"

\* the normalized-title similarity of the candidate to the input title is
\* strictly greater than 0.85
Similar(c, title) ==
  SimilarEnough(clean_text_for_comparison(c.title.val),
                clean_text_for_comparison(CleanTitle(title)))

\* the year hint rejects only a candidate that carries a year, and another one
ConflictsStructured(c, year) ==
  /\ year # <<>>
  /\ c.pp.tag = "year"
  /\ IntToStr(c.pp.val) # year

\* the year hint rejects every candidate with a published-print field whose
\* first date-part, as text, is not the hint: no date-parts read as ''
ConflictsPublishedPrint(c, year) ==
  /\ year # <<>>
  /\ c.pp.tag # "absent"
  /\ PubYear(c.pp) # year

\* the indices of the candidates the resolver is to accept
Acceptable(items, title, year, Conflicts(_, _)) ==
  {i \in AllIndices(items) :
     /\ WellFormed(items[i])
     /\ HasTitle(items[i])
     /\ Similar(items[i], title)
     /\ ~Conflicts(items[i], year)}

\* the first acceptable candidate decides, if every candidate up to it has the
\* expected shape: its identifier is returned, '' if it has none or if there
\* is no acceptable candidate
FirstAcceptedDecides(Conflicts(_, _)) ==
  LET items == rsResp.items
      ok == Acceptable(items, rsTitle, rsYear, Conflicts)
      first == IF ok = {} THEN Len(items) ELSE CHOOSE i \in ok : \A j \in ok : i <= j
  IN (\A j \in 1..first : WellFormed(items[j]))
       => rsResult = Returned(IF ok = {} THEN <<>> ELSE DoiOf(items[first]))

C4_NeverRaises ==
  rsPhase = "done"
    => /\ ~rsResult.raised
       /\ (rsResp.kind # "ok" \/ rsResp.items = <<>>) => rsResult.value = <<>>
       /\ (\E i \in AllIndices(rsResp.items) :
              /\ rsResp.items[i].title.tag = "bad"
              /\ \A j \in 1..(i - 1) : ~HasTitle(rsResp.items[j]))
            => rsResult.value = <<>>
       /\ rsResult.value # <<>>
            => \E i \in AllIndices(rsResp.items) :
                 /\ HasTitle(rsResp.items[i])
                 /\ Similar(rsResp.items[i], rsTitle)
                 /\ rsResult.value = DoiOf(rsResp.items[i])

\* the registry call raised and the resolver returned ''
C4_Witness ==
  /\ rsPhase = "done"
  /\ rsResp.kind = "network_error"
  /\ rsResult = Returned(<<>>)

IsPunctuation(c) == ~IsWord(c) /\ ~IsSpace(c)

NotPunctuation(c) == ~IsPunctuation(c)

\* a title without its punctuation, in lower case
FoldPunctCase(s) == Lower(SelectSeq(s, NotPunctuation))

\* C8: two titles that differ only in punctuation and letter case have the same
\* normalized string and similarity 1.0, wherever the punctuation stands.
C8_PunctuationAndCaseIgnored ==
  rsPhase = "done"
    => \A i \in AllIndices(rsResp.items) :
         (/\ HasTitle(rsResp.items[i])
          /\ FoldPunctCase(rsResp.items[i].title.val) = FoldPunctCase(rsTitle))
           => /\ clean_text_for_comparison(rsResp.items[i].title.val)
                   = clean_text_for_comparison(CleanTitle(rsTitle))
              /\ RatioIsOne(clean_text_for_comparison(rsResp.items[i].title.val),
                            clean_text_for_comparison(CleanTitle(rsTitle)))

(***************************************************************************)
(* Properties of the page, under Spec.                                      *)
(***************************************************************************)
\* C5: after a "1. Process Publications" run that found no publication, the
\* resolver is not run until a later parse succeeds.
C5_NoResolverAfterEmptyParse == last_parse = "empty" => pc = "idle"

\* what C7 says create_doi_url returns
DoiUrlFor(doi) ==
  IF Len(doi) >= 3 /\ doi[1] = "1" /\ doi[2] = "0" /\ doi[3] = "."
  THEN <<"h", "t", "t", "p", "s", ":", "/", "/", "d", "o", "i", ".", "o", "r", "g", "/">> \o doi
  ELSE <<>>

DoiSamples ==
  { <<>>, S_DoiXyz, S_Invalid, <<"1", "0">>, <<"1", "0", ".">>,
    <<"x", "1", "0", ".">>, <<"1", "0", "/", "1">> }

\* C7: create_doi_url(doi) is 'https://doi.org/' + doi if doi begins with
\* '10.', and '' otherwise; after a batch pass every row's DOI URL is that of
\* its DOI.
C7_DoiUrl ==
  /\ create_doi_url(S_DoiXyz) = S_UrlXyz
  /\ \A doi \in DoiSamples : create_doi_url(doi) = DoiUrlFor(doi)
  /\ processed_df.doi_cols
       => \A i \in AllIndices(processed_df.rows) :
            processed_df.rows[i].DOI_URL = DoiUrlFor(processed_df.rows[i].DOI)

\* a table after a batch pass with a DOI that begins with '10.' and one that
\* does not
C7_Witness ==
  /\ processed_df.doi_cols
  /\ Len(processed_df.rows) = 2
  /\ processed_df.rows[1].DOI = S_DoiXyz
  /\ processed_df.rows[1].DOI_URL = S_UrlXyz
  /\ processed_df.rows[2].DOI = S_Invalid
  /\ processed_df.rows[2].DOI_URL = <<>>

\* the calls made so far in the running loop
CallsMade == IF pc = "sleep" THEN idx ELSE idx - 1

\* C9: process_dois makes one resolver call per row, in row order, each
\* followed by the pause before the next; no row is retried; a failed lookup
\* leaves '' for its row and the loop goes on; the loop can always take its
\* next step and returns exactly one value per row, the i-th for the i-th row.
C9_SequentialLoop ==
  pc # "idle"
    => LET n == Len(processed_df.rows)
       IN /\ idx \in 1..(n + 1)
          /\ (pc = "return") <=> (idx = n + 1)
          /\ Len(log) = (idx - 1) + CallsMade
          /\ \A k \in 1..CallsMade : log[2 * k - 1] = <<"call", k>>
          /\ \A k \in 1..(idx - 1) : log[2 * k] = <<"sleep", k>>
          /\ Len(dois) = CallsMade
          /\ Len(resps) = CallsMade
          /\ \A k \in 1..CallsMade :
               /\ resps[k] \in Failures => dois[k] = <<>>
               /\ dois[k] = search_crossref_doi(processed_df.rows[k].Title,
                                                processed_df.rows[k].Authors,
                                                processed_df.rows[k].Year,
                                                resps[k]).value
          /\ pc = "return" => Len(dois) = n
          /\ ENABLED LoopStep

\* the loop ends on two rows, the first lookup failed, the second found a DOI
C9_Witness ==
  /\ pc = "return"
  /\ Len(processed_df.rows) = 2
  /\ resps[1] = Response("network_error", <<>>)
  /\ dois[1] = <<>>
  /\ dois[2] = S_Invalid
  /\ log = << <<"call", 1>>, <<"sleep", 1>>, <<"call", 2>>, <<"sleep", 2>> >>

====
